---- MODULE Spec2Model ----
(***************************************************************************)
(* PiThermalCam, sequential_versions/matplotlib_therm_cam.py.              *)
(*                                                                         *)
(* The script reads 24x32 temperature frames from an MLX90640 sensor and   *)
(* shows them with matplotlib.  It has five run modes (print_mean_temp,    *)
(* simple_pic, simple_camera_read, interpolated_pic,                       *)
(* interpolated_camera_read) and one helper, c_to_f.                       *)
(*                                                                         *)
(* Python floats are IEEE-754 binary64 numbers.  They are modelled exactly *)
(* (round to nearest, ties to even) on arbitrary-length bit strings, so    *)
(* that c_to_f is computed as the interpreter computes it.                 *)
(***************************************************************************)
EXTENDS Integers, Sequences, FiniteSets, TLC

(***************************************************************************)
(* Natural numbers of any size: sequences of limbs (digits in base 2^15),  *)
(* least significant limb first, without leading zero limbs.               *)
(*                                                                         *)
(* TLC evaluates an operator's argument again at every use of it when it   *)
(* evaluates ENABLED.  The operators below that use an argument many times *)
(* therefore fix its value first: CHOOSE r \in {F(a) : a \in {x}} : TRUE    *)
(* is F(x) with x evaluated once.                                          *)
(***************************************************************************)
LimbBits == 15

RECURSIVE Pow2(_)
Pow2(n) == IF n = 0 THEN 1 ELSE 2 * Pow2(n - 1)

Base == Pow2(LimbBits)

RECURSIVE LTrim(_)
LTrim(x) ==
    IF x = <<>> THEN <<>>
    ELSE IF x[Len(x)] = 0 THEN LTrim(SubSeq(x, 1, Len(x) - 1))
    ELSE x

RECURSIVE FromNat(_)
FromNat(n) == IF n = 0 THEN <<>> ELSE <<n % Base>> \o FromNat(n \div Base)

Limb(x, i) == IF i <= Len(x) THEN x[i] ELSE 0

RECURSIVE LAddC(_, _, _, _)
LAddC(x, y, i, c) ==
    IF i > Len(x) /\ i > Len(y) THEN (IF c = 0 THEN <<>> ELSE <<c>>)
    ELSE LET s == Limb(x, i) + Limb(y, i) + c
         IN  <<s % Base>> \o LAddC(x, y, i + 1, s \div Base)

LAdd(x, y) == CHOOSE r \in {LAddC(a, b, 1, 0) : a \in {x}, b \in {y}} : TRUE

\* x - y for x >= y
RECURSIVE LSubB(_, _, _, _)
LSubB(x, y, i, bw) ==
    IF i > Len(x) THEN <<>>
    ELSE LET d == x[i] - Limb(y, i) - bw
         IN  <<(d + Base) % Base>> \o LSubB(x, y, i + 1, IF d < 0 THEN 1 ELSE 0)

LSub(x, y) == CHOOSE r \in {LTrim(LSubB(a, b, 1, 0)) : a \in {x}, b \in {y}} : TRUE

\* x < y, for trimmed x and y
LLess(x, y) ==
    \E a \in {x}, b \in {y} :
       \/ Len(a) < Len(b)
       \/ /\ Len(a) = Len(b)
          /\ \E i \in 1..Len(a) :
                /\ a[i] < b[i]
                /\ \A j \in (i + 1)..Len(a) : a[j] = b[j]

\* x * d for one limb d
RECURSIVE LMulLimb(_, _, _, _)
LMulLimb(x, d, i, c) ==
    IF i > Len(x) THEN (IF c = 0 THEN <<>> ELSE <<c>>)
    ELSE LET s == x[i] * d + c
         IN  <<s % Base>> \o LMulLimb(x, d, i + 1, s \div Base)

RECURSIVE LMulFrom(_, _, _)
LMulFrom(x, y, j) ==
    IF j > Len(y) THEN <<>>
    ELSE LAdd(LMulLimb(x, y[j], 1, 0), <<0>> \o LMulFrom(x, y, j + 1))

LMul(x, y) == CHOOSE r \in {LTrim(LMulFrom(a, b, 1)) : a \in {x}, b \in {y}} : TRUE

RECURSIVE SmallBitLen(_)
SmallBitLen(n) == IF n = 0 THEN 0 ELSE 1 + SmallBitLen(n \div 2)

\* number of significant bits of a trimmed x
BitLen(x) == IF x = <<>> THEN 0 ELSE LimbBits * (Len(x) - 1) + SmallBitLen(x[Len(x)])

\* bit i of x, the lowest bit being bit 0
Bit(x, i) == (Limb(x, (i \div LimbBits) + 1) \div Pow2(i % LimbBits)) % 2

\* x mod 2^n = 0
LowBitsZero(x, n) ==
    /\ \A j \in 1..(n \div LimbBits) : Limb(x, j) = 0
    /\ Limb(x, (n \div LimbBits) + 1) % Pow2(n % LimbBits) = 0

\* floor(x / 2^n)
ShiftRightBy(x, q, lo, hi) ==
    LTrim([i \in 1..(Len(x) - q) |->
             (Limb(x, i + q) \div lo) + (Limb(x, i + q + 1) % lo) * hi])

ShiftRight(x, n) ==
    CHOOSE r \in {ShiftRightBy(a, n \div LimbBits, lo, hi) :
                     a \in {x}, lo \in {Pow2(n % LimbBits)},
                     hi \in {Pow2(LimbBits - (n % LimbBits))}} : TRUE

\* x * 2^n
ShiftLeftBy(x, q, lo, hi) ==
    LTrim([i \in 1..(Len(x) + q + 1) |->
             IF i <= q THEN 0
             ELSE (Limb(x, i - q) % hi) * lo
                  + (IF i - q - 1 >= 1 THEN Limb(x, i - q - 1) \div hi ELSE 0)])

ShiftLeft(x, n) ==
    CHOOSE r \in {ShiftLeftBy(a, n \div LimbBits, lo, hi) :
                     a \in {x}, lo \in {Pow2(n % LimbBits)},
                     hi \in {Pow2(LimbBits - (n % LimbBits))}} : TRUE

(***************************************************************************)
(* A finite binary64 value is (-1)^neg * m * 2^e, m having exactly         *)
(* MantissaBits bits, or zero.  The exponent range is not modelled: the    *)
(* values the model computes stay far from overflow and from subnormals.   *)
(***************************************************************************)
MantissaBits == 53

FZero == [neg |-> FALSE, m |-> <<>>, e |-> 0]

\* The binary64 value nearest to (-1)^neg * m * 2^e, ties to even.
RoundUp(m, kept, drop) ==
    /\ Bit(m, drop - 1) = 1
    /\ (~LowBitsZero(m, drop - 1) \/ Bit(kept, 0) = 1)

Renormal(neg, k, e) ==
    IF BitLen(k) > MantissaBits
    THEN [neg |-> neg, m |-> ShiftRight(k, 1), e |-> e + 1]
    ELSE [neg |-> neg, m |-> k, e |-> e]

RoundTrimmed(neg, m, e, drop) ==
    IF m = <<>> THEN FZero
    ELSE IF drop <= 0 THEN [neg |-> neg, m |-> ShiftLeft(m, -drop), e |-> e + drop]
    ELSE CHOOSE r \in {Renormal(neg, k, e + drop) :
                         k \in {IF RoundUp(m, kept, drop) THEN LAdd(kept, <<1>>) ELSE kept :
                                  kept \in {ShiftRight(m, drop)}}} : TRUE

Round53(neg, m0, e) ==
    CHOOSE r \in {RoundTrimmed(neg, m, e, BitLen(m) - MantissaBits) :
                     m \in {LTrim(m0)}} : TRUE

\* float(n) for an integer n
FromInt(n) == Round53(n < 0, FromNat(IF n < 0 THEN -n ELSE n), 0)

FNeg(x) == CHOOSE r \in {IF a.m = <<>> THEN a ELSE [a EXCEPT !.neg = ~a.neg] : a \in {x}} : TRUE

\* x * y
FMul(x, y) ==
    CHOOSE r \in {Round53(a.neg # b.neg, LMul(a.m, b.m), a.e + b.e) :
                     a \in {x}, b \in {y}} : TRUE

\* x + y
AddAligned(xneg, mx, yneg, my, e0) ==
    IF xneg = yneg THEN Round53(xneg, LAdd(mx, my), e0)
    ELSE IF LLess(mx, my) THEN Round53(yneg, LSub(my, mx), e0)
    ELSE Round53(xneg, LSub(mx, my), e0)

AddValues(x, y, e0) ==
    IF x.m = <<>> THEN y
    ELSE IF y.m = <<>> THEN x
    ELSE CHOOSE r \in {AddAligned(x.neg, mx, y.neg, my, e0) :
                         mx \in {ShiftLeft(x.m, x.e - e0)},
                         my \in {ShiftLeft(y.m, y.e - e0)}} : TRUE

FAdd(x, y) ==
    CHOOSE r \in {AddValues(a, b, IF a.e < b.e THEN a.e ELSE b.e) :
                     a \in {x}, b \in {y}} : TRUE

\* x - y
FSub(x, y) == FAdd(x, FNeg(y))

FractionLimbs == 5

\* The limbs of floor(r * Base^k / q), least significant first, below them
\* one limb that tells whether a remainder is left, for 0 <= r < q < 2^16.
RECURSIVE FracLimbs(_, _, _)
FracLimbs(r, q, k) ==
    IF k = 0 THEN <<IF r = 0 THEN 0 ELSE 1>>
    ELSE FracLimbs((r * Base) % q, q, k - 1) \o <<(r * Base) \div q>>

\* p / q for integer-valued floats p and q > 0: the quotient to
\* FractionLimbs limbs after the point and a sticky limb, rounded once.
FDivNat(neg, n, q) ==
    Round53(neg,
            FracLimbs(n % q, q, FractionLimbs) \o FromNat(n \div q),
            -(LimbBits * (FractionLimbs + 1)))

FDivInt(p, q) ==
    CHOOSE r \in {FDivNat(a < 0, IF a < 0 THEN -a ELSE a, b) : a \in {p}, b \in {q}} : TRUE

(***************************************************************************)
(* c_to_f: (9.0 / 5.0) * temp + 32.0                                       *)
(***************************************************************************)
\* Variant: the ratio taken in integer arithmetic, 9 / 5 = 1.
c_to_f_IntegerRatio(temp) == FAdd(FMul(FromInt(1), temp), FromInt(32))

c_to_f(temp) == FAdd(FMul(FDivInt(9, 5), temp), FromInt(32))

(***************************************************************************)
(* Arrays.  A frame buffer is a sequence of Rows * Cols readings; a grid   *)
(* is a sequence of rows.  An image array is a record: zoom = 1 is the     *)
(* grid itself, zoom = 10 stands for scipy's ndimage.zoom(grid, 10), whose *)
(* spline values are not computed (library code).                          *)
(***************************************************************************)
Rows == 24
Cols == 32
mlx_interp_val == 10
colorbar_update_interval == 5
InitialLastUpdate == -100
ProfilingStop == 20
WindowLen == 10

Zeros(n) == [i \in 1..n |-> 0]

\* np.reshape(frame, mlx_shape), row-major
Reshape(frame) == [r \in 1..Rows |-> [c \in 1..Cols |-> frame[(r - 1) * Cols + c]]]

\* Variants: no mirroring; rows rotated by one column.
Fliplr_Unmirrored(g) == g
Fliplr_Rolled(g) ==
    CHOOSE f \in {[r \in 1..Len(a) |-> [c \in 1..Len(a[r]) |-> a[r][(c % Len(a[r])) + 1]]] :
                     a \in {g}} : TRUE

\* np.fliplr(grid)
Fliplr(g) ==
    CHOOSE f \in {[r \in 1..Len(a) |-> [c \in 1..Len(a[r]) |-> a[r][Len(a[r]) + 1 - c]]] :
                     a \in {g}} : TRUE

Plain(g) == [zoom |-> 1, grid |-> g]

\* ndimage.zoom(data_array, mlx_interp_val)
Zoom(g, k) == [zoom |-> k, grid |-> g]

Shape(a) == <<Len(a.grid) * a.zoom, Len(a.grid[1]) * a.zoom>>

RECURSIVE SumRange(_, _, _)
SumRange(f, lo, hi) ==
    IF lo > hi THEN 0
    ELSE IF lo = hi THEN f[lo]
    ELSE CHOOSE s \in {SumRange(f, lo, mid) + SumRange(f, mid + 1, hi) :
                         mid \in {(lo + hi) \div 2}} : TRUE

\* Variant: a mean that leaves the first element out of the sum.
Mean_WithoutFirst(a) == CHOOSE r \in {FDivInt(SumRange(b, 2, Len(b)), Len(b)) : b \in {a}} : TRUE

\* np.mean(frame): the sum (exact for the integer readings of the model)
\* divided by the number of elements, one rounding.
Mean(a) == CHOOSE r \in {FDivInt(SumRange(b, 1, Len(b)), Len(b)) : b \in {a}} : TRUE

SetMin(S) == CHOOSE x \in S : \A y \in S : x <= y
SetMax(S) == CHOOSE x \in S : \A y \in S : x >= y
Cells(g) == UNION {{a[r][c] : c \in 1..Len(a[r])} : a \in {g}, r \in 1..Len(g)}

\* (np.min(data_array), np.max(data_array)); for a zoomed array the extremes
\* of the spline are library values, kept as a term over the source grid.
Extremes(a) ==
    CHOOSE r \in {[of_zoom |-> a.zoom, vmin |-> SetMin(S), vmax |-> SetMax(S)] :
                     S \in {Cells(a.grid)}} : TRUE

Preset(lo, hi) == [of_zoom |-> 0, vmin |-> lo, vmax |-> hi]

(***************************************************************************)
(* The sensor and the clock (the program's environment).                   *)
(***************************************************************************)
NumScenes == 2
MaxFails == 2
MaxBoot == 1
MaxClock == 9
SteadyStep == 6

\* The frames the sensor can deliver: integer Celsius readings.
Pixel(k, i) == 18 + 3 * k + ((k * i + (i \div Cols)) % 11)
SensorFrame(k) == [i \in 1..(Rows * Cols) |-> Pixel(k, i)]

\* A read that raises ValueError may already have written the pixels of
\* one subpage (the chess pattern) of the frame it was reading.
Subpage0(i) == (((i - 1) \div Cols) + ((i - 1) % Cols)) % 2 = 0
PartialWrite(frame, k) ==
    [i \in 1..Len(frame) |-> IF Subpage0(i) THEN Pixel(k, i) ELSE frame[i]]

\* How long an acquisition may take, in clock ticks of one second.
Durations == {1, 4}

VARIABLES
    mode,          \* 0: c_to_f called by an importer; 1..5: the run modes; 6: none
    profiling,     \* module flag, line 18
    pc,            \* position in the program
    refresh_rate,  \* mlx.refresh_rate; 0: not assigned by the program
    frame,         \* the reading buffer
    image,         \* data held by the artist therm1
    clim,          \* colour limits of therm1, also the colorbar's range
    screen,        \* what was last drawn on the canvas
    clock,         \* time.monotonic()
    t1, t_array, last_update, full_update, count,
    printed,       \* number of lines written to stdout
    ret,           \* return value of the mode function
    err,           \* unhandled exception
    saved,         \* files written
    arg_a, arg_b, res_a, res_b,  \* c_to_f called directly
    scene,         \* history: the frame of the last successful read, 0: none
    fails,         \* history: failed reads so far, counted up to MaxFails
    full_at        \* history: start times of the last two full updates drawn

vars == <<mode, profiling, pc, refresh_rate, frame, image, clim, screen, clock,
          t1, t_array, last_update, full_update, count, printed, ret, err,
          saved, arg_a, arg_b, res_a, res_b, scene, fails, full_at>>

None == "None"
NoImage == [zoom |-> 0, grid |-> <<>>]
Canvas(img, lim) == [data |-> img, clim |-> lim]
\* Arguments for c_to_f: the multiples of 5 in the sensor's range of
\* -40..300 degrees, and some other integers.
TestTemps == {5 * i : i \in -8..60} \cup {-7, -1, 1, 2, 37}

Init ==
    /\ mode \in 0..6
    /\ profiling \in (IF mode = 0 THEN {FALSE} ELSE BOOLEAN)
    /\ pc = "main"
    /\ refresh_rate = 0
    /\ frame = <<>>
    /\ image = NoImage
    /\ clim = Preset(0, 0)
    /\ screen = Canvas(NoImage, Preset(0, 0))
    /\ clock \in (IF mode = 0 THEN {0} ELSE {0, MaxBoot})
    /\ t1 = 0
    /\ t_array = <<>>
    /\ last_update = 0
    /\ full_update = FALSE
    /\ count = 0
    /\ printed = 0
    /\ ret = None
    /\ err = None
    /\ saved = {}
    /\ arg_a \in (IF mode = 0 THEN TestTemps ELSE {0})
    /\ arg_b \in (IF mode = 0 THEN TestTemps ELSE {0})
    /\ res_a = None
    /\ res_b = None
    /\ scene = 0
    /\ fails = 0
    /\ full_at = <<>>

display   == <<image, clim, screen>>
timing    == <<clock, t1, t_array, last_update, full_update, count>>
results   == <<printed, ret, err, saved>>
direct    == <<arg_a, arg_b, res_a, res_b>>
config    == <<mode, profiling>>
history   == <<scene, fails, full_at>>

\* mlx.refresh_rate = ...
\* Variant: the assignment to mlx.refresh_rate left out.
SetRefreshRate_Skipped(hz) == refresh_rate' = refresh_rate

SetRefreshRate(hz) == refresh_rate' = hz

Bump(n) == IF n < MaxFails THEN n + 1 ELSE n

\* mlx.getFrame(frame) returning normally with frame k.
ReadOk(k) ==
    /\ frame' = SensorFrame(k)
    /\ scene' = k
    /\ fails' = fails
    /\ full_at' = full_at

\* mlx.getFrame(frame) raising ValueError.
ReadError(k, partial) ==
    /\ frame' = IF partial THEN PartialWrite(frame, k) ELSE frame
    /\ fails' = Bump(fails)
    /\ scene' = scene
    /\ full_at' = full_at

\* lines 254-269
Main ==
    /\ pc = "main"
    /\ mode \in 1..6
    /\ pc' = CASE mode = 1 -> "print_mean_temp"
               [] mode = 2 -> "simple_pic"
               [] mode = 3 -> "simple_camera_read"
               [] mode = 4 -> "interpolated_pic"
               [] mode = 5 -> "interpolated_camera_read"
               [] OTHER    -> "exit"
    /\ printed' = IF mode = 6 THEN printed + 1 ELSE printed
    /\ UNCHANGED <<config, refresh_rate, frame, display, timing, ret, err, saved,
                   direct, history>>

\* A caller of the imported module applies c_to_f to two temperatures.
CallCToF ==
    /\ pc = "main"
    /\ mode = 0
    /\ res_a' = c_to_f(FromInt(arg_a))
    /\ res_b' = c_to_f(FromInt(arg_b))
    /\ pc' = "exit"
    /\ UNCHANGED <<config, refresh_rate, frame, display, timing, results,
                   arg_a, arg_b, history>>

(***************************************************************************)
(* print_mean_temp, lines 65-80                                            *)
(***************************************************************************)
PMT_Alloc ==
    /\ pc = "print_mean_temp"
    /\ frame' = Zeros(Rows * Cols)
    /\ pc' = "pmt_getFrame"
    /\ UNCHANGED <<config, refresh_rate, display, timing, results, direct, history>>

\* lines 74-75: except ValueError: continue
\* Variant: a failed read ends print_mean_temp.
PMT_AfterError_Leaves == "exit"

PMT_AfterError == "pmt_getFrame"

PMT_GetFrame ==
    /\ pc = "pmt_getFrame"
    /\ \E k \in 1..NumScenes :
          \/ ReadOk(k) /\ pc' = "pmt_mean"
          \/ \E partial \in BOOLEAN : ReadError(k, partial) /\ pc' = PMT_AfterError
    /\ UNCHANGED <<config, refresh_rate, display, timing, results, direct>>

PMT_Return ==
    /\ pc = "pmt_mean"
    /\ LET temp_c == Mean(frame)
           temp_f == c_to_f(temp_c)
       IN  ret' = <<temp_c, temp_f>>
    /\ printed' = printed + 1
    /\ pc' = "exit"
    /\ UNCHANGED <<config, refresh_rate, frame, display, timing, err, saved,
                   direct, history>>

(***************************************************************************)
(* simple_pic, lines 83-102                                                *)
(***************************************************************************)
SP_Setup ==
    /\ pc = "simple_pic"
    /\ SetRefreshRate(2)
    /\ image' = Plain(Reshape(Zeros(Rows * Cols)))
    /\ clim' = Preset(0, 60)
    /\ frame' = Zeros(Rows * Cols)
    /\ pc' = "sp_getFrame"
    /\ UNCHANGED <<config, screen, timing, results, direct, history>>

\* line 96: no handler around the read
SP_GetFrame ==
    /\ pc = "sp_getFrame"
    /\ \E k \in 1..NumScenes :
          \/ ReadOk(k) /\ pc' = "sp_show" /\ err' = err
          \/ \E partial \in BOOLEAN :
                ReadError(k, partial) /\ pc' = "crashed" /\ err' = "ValueError"
    /\ UNCHANGED <<config, refresh_rate, display, timing, printed, ret, saved, direct>>

SP_Show ==
    /\ pc = "sp_show"
    /\ LET data_array == Reshape(frame)
       IN  /\ image' = Plain(Fliplr(data_array))
           /\ clim' = Extremes(Plain(data_array))
    /\ screen' = Canvas(image', clim')
    /\ saved' = saved \cup {"simple_pic.png"}
    /\ pc' = "exit"
    /\ UNCHANGED <<config, refresh_rate, frame, timing, printed, ret, err, direct, history>>

(***************************************************************************)
(* simple_camera_read, lines 105-132                                       *)
(***************************************************************************)
\* The time a successful read may take.  Up to MaxClock the sensor is free
\* to take any of Durations; a profiled run is followed to its end with
\* reads of SteadyStep seconds; otherwise the run is followed no further.
ReadTimes ==
    IF \E d \in Durations : clock + d <= MaxClock
    THEN {d \in Durations : clock + d <= MaxClock}
    ELSE IF mode = 5 /\ profiling THEN {SteadyStep}
    ELSE {}

SCR_Setup ==
    /\ pc = "simple_camera_read"
    /\ SetRefreshRate(8)
    /\ image' = Plain(Reshape(Zeros(Rows * Cols)))
    /\ clim' = Preset(0, 60)
    /\ frame' = Zeros(Rows * Cols)
    /\ t_array' = <<>>
    /\ pc' = "scr_loop"
    /\ UNCHANGED <<config, screen, clock, t1, last_update, full_update, count,
                   results, direct, history>>

\* line 120
SCR_LoopTop ==
    /\ pc = "scr_loop"
    /\ t1' = clock
    /\ pc' = "scr_getFrame"
    /\ UNCHANGED <<config, refresh_rate, frame, display, clock, t_array, last_update,
                   full_update, count, results, direct, history>>

\* lines 131-132: except ValueError: continue
\* Variant: a failed read ends simple_camera_read.
SCR_AfterError_Leaves == "exit"

SCR_AfterError == "scr_loop"

\* lines 121-122, 131-132
SCR_GetFrame ==
    /\ pc = "scr_getFrame"
    /\ \E k \in 1..NumScenes :
          \/ \E d \in ReadTimes :
                ReadOk(k) /\ clock' = clock + d /\ pc' = "scr_show"
          \/ \E partial \in BOOLEAN :
                ReadError(k, partial) /\ clock' = clock /\ pc' = SCR_AfterError
    /\ UNCHANGED <<config, refresh_rate, display, t1, t_array, last_update,
                   full_update, count, results, direct>>

\* lines 123-130
SCR_Show ==
    /\ pc = "scr_show"
    /\ LET data_array == Reshape(frame)
       IN  /\ image' = Plain(Fliplr(data_array))
           /\ clim' = Extremes(Plain(data_array))
    /\ screen' = Canvas(image', clim')
    /\ t_array' = Append(t_array, clock - t1)
    /\ printed' = printed + 1
    /\ pc' = "scr_loop"
    /\ UNCHANGED <<config, refresh_rate, frame, clock, t1, last_update, full_update,
                   count, ret, err, saved, direct, history>>

(***************************************************************************)
(* interpolated_pic, lines 135-176                                         *)
(***************************************************************************)
IP_Setup ==
    /\ pc = "interpolated_pic"
    /\ SetRefreshRate(4)
    /\ image' = Zoom(Reshape(Zeros(Rows * Cols)), mlx_interp_val)
    /\ clim' = Preset(25, 45)
    /\ screen' = Canvas(image', clim')
    /\ frame' = Zeros(Rows * Cols)
    /\ pc' = "ip_getFrame"
    /\ UNCHANGED <<config, timing, results, direct, history>>

\* lines 162-163: no handler around the read
IP_GetFrame ==
    /\ pc = "ip_getFrame"
    /\ \E k \in 1..NumScenes :
          \/ ReadOk(k) /\ pc' = "ip_show" /\ err' = err
          \/ \E partial \in BOOLEAN :
                ReadError(k, partial) /\ pc' = "crashed" /\ err' = "ValueError"
    /\ UNCHANGED <<config, refresh_rate, display, timing, printed, ret, saved, direct>>

\* lines 164-176
IP_Show ==
    /\ pc = "ip_show"
    /\ LET data_array == Zoom(Fliplr(Reshape(frame)), mlx_interp_val)
       IN  /\ image' = data_array
           /\ clim' = Extremes(data_array)
    /\ screen' = Canvas(image', clim')
    /\ saved' = saved \cup {"interp_pic.png"}
    /\ pc' = "exit"
    /\ UNCHANGED <<config, refresh_rate, frame, timing, printed, ret, err, direct, history>>

(***************************************************************************)
(* interpolated_camera_read, lines 179-251                                 *)
(***************************************************************************)
ICR_Setup ==
    /\ pc = "interpolated_camera_read"
    /\ SetRefreshRate(8)
    /\ image' = Zoom(Reshape(Zeros(Rows * Cols)), mlx_interp_val)
    /\ clim' = Preset(25, 45)
    /\ screen' = Canvas(image', clim')
    /\ frame' = Zeros(Rows * Cols)
    /\ t_array' = <<>>
    /\ last_update' = InitialLastUpdate
    /\ count' = 0
    /\ pc' = "icr_loop"
    /\ UNCHANGED <<config, clock, t1, full_update, results, direct, history>>

\* line 229
\* Variant: a full update already when exactly the interval has passed.
FullUpdateDue_AtInterval(now) == now - last_update >= colorbar_update_interval

FullUpdateDue(now) == now - last_update > colorbar_update_interval

\* lines 227-233
ICR_LoopTop ==
    /\ pc = "icr_loop"
    /\ t1' = clock
    /\ IF FullUpdateDue(clock)
       THEN last_update' = clock /\ full_update' = TRUE
       ELSE last_update' = last_update /\ full_update' = FALSE
    /\ pc' = "icr_getFrame"
    /\ UNCHANGED <<config, refresh_rate, frame, display, clock, t_array, count,
                   results, direct, history>>

\* plot_update, lines 209-210: no handler around the read (lines 228, 235)
ICR_GetFrame ==
    /\ pc = "icr_getFrame"
    /\ \E k \in 1..NumScenes :
          \/ \E d \in ReadTimes :
                ReadOk(k) /\ clock' = clock + d /\ pc' = "icr_draw" /\ err' = err
          \/ \E partial \in BOOLEAN :
                /\ ReadError(k, partial)
                /\ clock' = clock
                /\ pc' = "crashed"
                /\ err' = "ValueError"
    /\ UNCHANGED <<config, refresh_rate, display, t1, t_array, last_update,
                   full_update, count, printed, ret, saved, direct>>

\* plot_update, lines 211-221
ICR_Draw ==
    /\ pc = "icr_draw"
    /\ LET data_array == Zoom(Fliplr(Reshape(frame)), mlx_interp_val)
       IN  IF full_update
           THEN /\ image' = data_array
                /\ clim' = Extremes(data_array)
                /\ full_at' = IF full_at = <<>> THEN <<t1>> ELSE <<full_at[Len(full_at)], t1>>
           ELSE /\ image' = image
                /\ clim' = clim
                /\ full_at' = full_at
    /\ screen' = Canvas(image', clim')
    /\ pc' = "icr_tail"
    /\ UNCHANGED <<config, refresh_rate, frame, timing, results, direct, scene, fails>>

\* line 244
ProfilingDone(n) == profiling /\ n >= ProfilingStop

\* lines 238-251
ICR_Tail ==
    /\ pc = "icr_tail"
    /\ LET appended == Append(t_array, clock - t1)
       IN  t_array' = IF Len(appended) > WindowLen THEN Tail(appended) ELSE appended
    /\ IF full_update
       THEN /\ count' = count + 1
            /\ IF ProfilingDone(count')
               THEN /\ printed' = printed + 2
                    /\ saved' = saved \cup {"profiling_stats.prof"}
                    /\ pc' = "exit"
               ELSE /\ printed' = printed + 1
                    /\ saved' = saved
                    /\ pc' = "icr_loop"
       ELSE /\ count' = count
            /\ printed' = printed
            /\ saved' = saved
            /\ pc' = "icr_loop"
    /\ UNCHANGED <<config, refresh_rate, frame, display, clock, t1, last_update,
                   full_update, ret, err, direct, history>>

Next ==
    \/ Main \/ CallCToF
    \/ PMT_Alloc \/ PMT_GetFrame \/ PMT_Return
    \/ SP_Setup \/ SP_GetFrame \/ SP_Show
    \/ SCR_Setup \/ SCR_LoopTop \/ SCR_GetFrame \/ SCR_Show
    \/ IP_Setup \/ IP_GetFrame \/ IP_Show
    \/ ICR_Setup \/ ICR_LoopTop \/ ICR_GetFrame \/ ICR_Draw \/ ICR_Tail

Spec == Init /\ [][Next]_vars

\* The two modes that retry a failed read; the interpreter keeps executing
\* print_mean_temp, the function whose return is in question.
RetryInit == Init /\ mode \in {1, 3}
RetryNext ==
    \/ Main
    \/ PMT_Alloc \/ PMT_GetFrame \/ PMT_Return
    \/ SCR_Setup \/ SCR_LoopTop \/ SCR_GetFrame \/ SCR_Show
RetrySpec ==
    /\ RetryInit
    /\ [][RetryNext]_vars
    /\ WF_vars(PMT_Alloc \/ PMT_GetFrame \/ PMT_Return)
(***************************************************************************)
(* Properties                                                              *)
(***************************************************************************)
Attempted == scene # 0 \/ fails > 0
ReadPositions == {"pmt_getFrame", "sp_getFrame", "scr_getFrame", "ip_getFrame", "icr_getFrame"}

\* The array a mode is to show for the frame last acquired.
Displayed ==
    IF mode \in {2, 3} THEN Plain(Fliplr(Reshape(SensorFrame(scene))))
    ELSE Zoom(Fliplr(Reshape(SensorFrame(scene))), mlx_interp_val)

\* C1: in every run mode a ValueError raised by mlx.getFrame is caught and
\* the read is tried again; it never leaves the mode function and never
\* ends the process.
C1_ReadErrorRetried ==
    (mode \in 1..5 /\ fails > 0) => (err = None /\ pc # "crashed")

\* C2: in every displaying mode, before the next acquisition (and at the
\* end of a single pass) the artist holds, and the canvas shows, the
\* reshaped, mirrored (and zoomed) grid of the frame acquired last.
C2_LatestFrameDisplayed ==
    ( /\ mode \in 2..5
      /\ scene # 0
      /\ pc \in {"exit", "scr_loop", "scr_getFrame", "icr_tail", "icr_loop", "icr_getFrame"} )
    => (image = Displayed /\ screen.data = image)

\* C3 as stated: once entered, none of the five mode functions returns.
C3_NeverReturns == mode \in 1..5 => pc # "exit"

\* C3 amended: simple_camera_read never returns; interpolated_camera_read
\* never returns with profiling off and with profiling on returns only at
\* its 20th full update; print_mean_temp, simple_pic and interpolated_pic
\* return only after a successful acquisition (simple_pic and
\* interpolated_pic: their first and only read).
C3_ReturnsOnlyAfter ==
    /\ mode = 3 => pc # "exit"
    /\ (mode = 5 /\ ~profiling) => pc # "exit"
    /\ (mode = 5 /\ pc = "exit") => count = ProfilingStop
    /\ (mode = 1 /\ pc = "exit") => scene # 0
    /\ (mode \in {2, 4} /\ pc = "exit") => (scene # 0 /\ fails = 0)

C3_Witness ==
    /\ mode = 3
    /\ pc = "scr_loop"
    /\ fails = MaxFails
    /\ Len(t_array) >= 3

\* C4 as stated: every mode assigns mlx.refresh_rate before its first
\* mlx.getFrame.
C4_RateSetBeforeFirstRead ==
    (mode \in 1..5 /\ (Attempted \/ pc \in ReadPositions)) => refresh_rate # 0

\* C4 amended: simple_pic, simple_camera_read, interpolated_pic and
\* interpolated_camera_read assign mlx.refresh_rate (2, 8, 4, 8 Hz) before
\* their first mlx.getFrame; print_mean_temp never assigns it.
C4_RateSetByDisplayingModes ==
    /\ (mode \in 2..5 /\ (Attempted \/ pc \in ReadPositions)) =>
          refresh_rate = (CASE mode = 2 -> 2 [] mode = 4 -> 4 [] OTHER -> 8)
    /\ mode = 1 => refresh_rate = 0

C4_Witness == mode = 4 /\ scene # 0 /\ refresh_rate = 4

\* C5: the retry loops of print_mean_temp and simple_camera_read have no
\* limit: while no read has succeeded they neither exit nor print nor fail,
\* and can always go on; print_mean_temp prints and returns exactly once,
\* after its first successful read, however many reads failed before it,
\* and a successful read always leads to its return.
C5_RetryUnbounded ==
    /\ []((mode \in {1, 3} /\ scene = 0) =>
            ( /\ pc \notin {"exit", "crashed"}
              /\ printed = 0
              /\ err = None
              /\ ENABLED RetryNext ))
    /\ [](mode = 1 => ( /\ printed <= 1
                        /\ pc = "exit" <=> printed = 1
                        /\ pc = "exit" <=> ret # None
                        /\ pc = "exit" => scene # 0 ))
    /\ ((mode = 1 /\ scene # 0) ~> (pc = "exit" /\ printed = 1))

C5_Witness == mode = 1 /\ pc = "exit" /\ fails = MaxFails /\ printed = 1

\* x is a binary64 value nearest to the exact quotient s / n (s, n > 0):
\* |m * 2^e - s / n| <= 2^e / 2, that is 2 * |m * n - s * 2^(-e)| <= n.
NearestToQuotient(x, s, n) ==
    /\ ~x.neg
    /\ x.e <= 0
    /\ BitLen(x.m) = MantissaBits
    /\ LET lhs == LMul(x.m, FromNat(n))
           rhs == ShiftLeft(FromNat(s), -x.e)
           d   == IF LLess(lhs, rhs) THEN LSub(rhs, lhs) ELSE LSub(lhs, rhs)
       IN  ~LLess(FromNat(n), ShiftLeft(d, 1))

C7_GridIsMirroredReshape ==
    ( /\ mode \in {2, 3}
      /\ pc \in {"exit", "scr_loop"}
      /\ scene # 0
      /\ frame = SensorFrame(scene) )
    => /\ Shape(image) = <<24, 32>>
       /\ \A r \in 0..23 : \A c \in 0..31 :
             image.grid[r + 1][c + 1] = frame[(r * 32 + (31 - c)) + 1]
       /\ screen.data = image

C7_Witness ==
    /\ mode = 3
    /\ pc = "scr_loop"
    /\ scene # 0
    /\ frame = SensorFrame(scene)
    /\ image.grid # Reshape(frame)
    /\ Len(t_array) >= 2

\* C8: mirroring a grid twice gives the grid back, cell for cell: for the
\* grid of every buffer a read has written (whole, or in part before it
\* raised) and for every grid the artist has just been given.
C8_FliplrTwiceIsIdentity ==
    /\ pc \in {"pmt_mean", "sp_show", "scr_show", "ip_show", "icr_draw", "crashed"} =>
          Fliplr(Fliplr(Reshape(frame))) = Reshape(frame)
    /\ (pc \in {"exit", "scr_loop", "icr_tail"} /\ mode \in 2..5) =>
          Fliplr(Fliplr(image.grid)) = image.grid

C8_Witness ==
    /\ pc \in {"exit", "scr_loop", "icr_tail"}
    /\ scene # 0
    /\ image.grid # <<>>
    /\ Fliplr(image.grid) # image.grid
    /\ Fliplr(image.grid) = Reshape(frame)

NineFifths == FDivInt(9, 5)

\* C9 as stated: c_to_f(0) = 32, c_to_f(100) = 212, for all a and b
\* c_to_f(a) - c_to_f(b) = (9/5) * (a - b), and print_mean_temp's Fahrenheit
\* value is c_to_f of its Celsius value.
C9_CToFAffine ==
    /\ (mode = 0 /\ pc = "exit") =>
          /\ arg_a = 0 => res_a = FromInt(32)
          /\ arg_a = 100 => res_a = FromInt(212)
          /\ FSub(res_a, res_b) = FMul(NineFifths, FSub(FromInt(arg_a), FromInt(arg_b)))
    /\ (mode = 1 /\ pc = "exit") => ret[2] = c_to_f(ret[1])

\* C9 amended: c_to_f(0) = 32 and c_to_f(100) = 212; for integer multiples
\* a, b of 5 c_to_f(a) is exactly 9a/5 + 32 and c_to_f(a) - c_to_f(b) equals
\* (9/5) * (a - b) (for other arguments only up to float rounding); and
\* print_mean_temp's Fahrenheit value is c_to_f of its Celsius value.
C9_CToFAffineOnFifths ==
    /\ (mode = 0 /\ pc = "exit") =>
          /\ arg_a = 0 => res_a = FromInt(32)
          /\ arg_a = 100 => res_a = FromInt(212)
          /\ arg_a % 5 = 0 => res_a = FromInt(9 * (arg_a \div 5) + 32)
          /\ (arg_a % 5 = 0 /\ arg_b % 5 = 0) =>
                FSub(res_a, res_b) = FMul(NineFifths, FSub(FromInt(arg_a), FromInt(arg_b)))
    /\ (mode = 1 /\ pc = "exit") => ret[2] = c_to_f(ret[1])

C9_Witness == mode = 0 /\ pc = "exit" /\ arg_a = 100 /\ arg_b = -40

\* C10: in interpolated_camera_read the first iteration is a full update;
\* two consecutive full updates start more than colorbar_update_interval
\* seconds apart; last_update is the start time of the most recent full
\* update; a full update sets image data and colour limits, draws them and
\* prints one frame-rate line; t_array never holds more than 10 entries.
C10_FullUpdatesThrottled ==
    mode = 5 =>
        /\ Len(t_array) <= 10
        /\ (pc \in {"icr_getFrame", "icr_draw", "icr_tail"} /\ t_array = <<>>) => full_update
        /\ \A i \in 1..(Len(full_at) - 1) : full_at[i + 1] - full_at[i] > 5
        /\ (pc \in {"icr_getFrame", "icr_draw"} /\ full_update) => last_update = t1
        /\ ( \/ pc \in {"icr_tail", "icr_loop", "exit"}
             \/ pc \in {"icr_getFrame", "icr_draw"} /\ ~full_update )
           => ( IF full_at = <<>>
                THEN pc = "icr_loop" /\ t_array = <<>> /\ last_update = -100
                ELSE last_update = full_at[Len(full_at)] )
        /\ (pc = "icr_tail" /\ full_update) =>
              /\ image = Zoom(Fliplr(Reshape(frame)), 10)
              /\ clim = Extremes(image)
              /\ screen = Canvas(image, clim)
        /\ pc \notin {"exit", "crashed"} => printed = count

C10_Witness ==
    /\ mode = 5
    /\ pc = "icr_loop"
    /\ count >= 2
    /\ Len(t_array) = 10
    /\ \E i \in 1..Len(t_array) : t_array[i] < 5
====
